---- MODULE Spec2Model ----
(***************************************************************************)
(* DestinationSet: the per-authority state machine that multiplexes local  *)
(* responders onto one Destination.Get stream                              *)
(* (src/control/destination/background/destination_set.rs).                *)
(*                                                                         *)
(* The Cache (control/cache.rs), the Responder liveness predicate and the  *)
(* Client are not part of the sources at hand; the Cache is modelled from  *)
(* section 4.1 of the specification.                                       *)
(***************************************************************************)
EXTENDS Integers, Sequences, FiniteSets, TLC

\* ---------------------------------------------------------------- bounds
MaxAddrs == 1       \* addresses carried by one stream update
MaxBatch == 1       \* updates that are ready within one poll_dst call
MaxResponders == 2  \* responders ever created for the set
MaxCount == 2       \* Add messages counted for the watched responder and key

Keys == {1, 2}      \* socket addresses
Metas == {1, 2}     \* metadata values
Resp == 1..MaxResponders

VARIABLES
    addrs,       \* Exists<Cache>: [tag, values, reset]
    query,       \* Option<Query>: "None" | "Connected" | "NeedsReconnect"
    responders,  \* Vec<Responder>, as a sequence of responder ids
    alive,       \* alive[r]: the consumer of r still holds its receiver
    made,        \* number of responders created so far
    call,        \* the last operation: [op, term, n, last, pruned, ret]
    view,        \* view[r]: the endpoints r's consumer holds, replaying its channel
    fresh,       \* endpoints asserted by the current stream since it was opened
    mutated,     \* the current stream has delivered an Add, Remove or NoEndpoints
    track,       \* whether fresh, mutated, opened and stale are kept
    rejected,    \* the stream has errored with InvalidArgument, no reconnect since
    opened,      \* the current stream: "new", "resumed" (opened after a disconnect),
                 \* "abandoned" (opened while its predecessor was still polled),
                 \* "reopened" (opened after an InvalidArgument)
    stale,       \* the cache contents when the current stream was opened
    watch,       \* <<r, k>>: the responder and key whose Add messages are counted
    cnt,         \* [adds, ins, chg, stop]: the counts for watch
    labels,      \* one pb_to_addr_meta call: [set_labels, metric_labels, addr,
                 \* done, some, meta]
    fmt          \* one fmt_labels call: [kind, a, b, width, precision, done,
                 \* buf, ok]

vars == <<addrs, query, responders, alive, made, call, view, rejected, track,
          fresh, mutated, opened, stale, watch, cnt, labels, fmt>>

\* ------------------------------------------------------------ data types
Unknown == [tag |-> "Unknown", values |-> <<>>, reset |-> FALSE]
No == [tag |-> "No", values |-> <<>>, reset |-> FALSE]
Yes(cache) == [tag |-> "Yes", values |-> cache.values, reset |-> cache.reset]

\* Update sent to a responder
UAdd(k, v) == <<"Add", k, v>>
URemove(k) == <<"Remove", k, 0>>
UNoEndpoints == <<"NoEndpoints", 0, 0>>

\* CacheChange handed to the change callback
Insertion(k, v) == <<"Insertion", k, v>>
Removal(k) == <<"Removal", k, 0>>
Modification(k, v) == <<"Modification", k, v>>

\* sequences over S of length at most n
RECURSIVE SeqsUpTo(_, _)
SeqsUpTo(S, n) ==
    IF n = 0 THEN {<<>>}
    ELSE LET shorter == SeqsUpTo(S, n - 1)
         IN shorter \cup {Append(s, x) : s \in {t \in shorter : Len(t) = n - 1}, x \in S}

\* decoded stream updates (PbUpdate2); a Remove carries its addresses as <<k, 0>>
PbAdd == {[t |-> "Add", addrs |-> a, exists |-> FALSE] : a \in SeqsUpTo(Keys \X Metas, MaxAddrs)}
PbRemove == {[t |-> "Remove", addrs |-> a, exists |-> FALSE] : a \in SeqsUpTo(Keys \X {0}, MaxAddrs)}
PbNoEndpoints == {[t |-> "NoEndpoints", addrs |-> <<>>, exists |-> e] : e \in BOOLEAN}
PbNone == {[t |-> "None", addrs |-> <<>>, exists |-> FALSE]}
PbUpdate2 == PbAdd \cup PbRemove \cup PbNoEndpoints \cup PbNone

Batches == SeqsUpTo(PbUpdate2, MaxBatch)

\* --------------------------------------------------------------- helpers
KeysOf(values) == {values[i][1] : i \in 1..Len(values)}
IndexOf(values, k) == CHOOSE i \in 1..Len(values) : values[i][1] = k
ValueOf(values, k) == values[IndexOf(values, k)][2]
InSeq(s, x) == \E i \in 1..Len(s) : s[i] = x

\* the broadcast state threaded through a handler: the registry and the channels
St(rs, lg) == [rs |-> rs, lg |-> lg]

\* mutant: only the first responder of the registry is sent the update
retain_send_first(st, update) ==
    St(SelectSeq(st.rs, LAMBDA r : alive[r]),
       [r \in Resp |-> IF st.rs # <<>> /\ r = Head(st.rs) /\ alive[r]
                       THEN Append(st.lg[r], update) ELSE st.lg[r]])

\* mutant: the broadcast stops at the first responder whose send fails
retain_send_abort(st, update) ==
    LET dead == {i \in 1..Len(st.rs) : ~alive[st.rs[i]]}
        stop == IF dead = {} THEN Len(st.rs) + 1
                ELSE CHOOSE i \in dead : \A j \in dead : i <= j
    IN St([i \in 1..(IF dead = {} THEN Len(st.rs) ELSE Len(st.rs) - 1) |->
             IF i < stop THEN st.rs[i] ELSE st.rs[i + 1]],
          [r \in Resp |-> IF \E i \in 1..Len(st.rs) : i < stop /\ st.rs[i] = r
                          THEN Append(st.lg[r], update) ELSE st.lg[r]])

\* responders.retain(|r| r.update_tx.unbounded_send(update).is_ok())
retain_send(st, update) ==
    St(SelectSeq(st.rs, LAMBDA r : alive[r]),
       [r \in Resp |-> IF InSeq(st.rs, r) /\ alive[r]
                       THEN Append(st.lg[r], update) ELSE st.lg[r]])

\* mutant: a Modification is not broadcast
on_change_skip_mod(st, change) ==
    IF change[1] = "Modification" THEN st
    ELSE retain_send(st, IF change[1] = "Removal" THEN URemove(change[2])
                         ELSE UAdd(change[2], change[3]))

on_change(st, change) ==
    LET update == IF change[1] = "Removal" THEN URemove(change[2])
                  ELSE UAdd(change[2], change[3])
    IN retain_send(st, update)

\* ----------------------------------------------------------------- Cache
NewCache == [values |-> <<>>, reset |-> FALSE]

RECURSIVE DrainAll(_, _)
DrainAll(values, st) ==
    IF values = <<>> THEN st
    ELSE DrainAll(Tail(values), on_change(st, Removal(Head(values)[1])))

\* reset-on-next-modification: removals for every entry, then an empty map
CacheReset(cache, st) ==
    IF cache.reset THEN [values |-> <<>>, st |-> DrainAll(cache.values, st)]
    ELSE [values |-> cache.values, st |-> st]

RECURSIVE UnionAll(_, _, _)
UnionAll(values, iter, st) ==
    IF iter = <<>> THEN [values |-> values, st |-> st]
    ELSE LET k == Head(iter)[1]
             v == Head(iter)[2]
         IN IF k \notin KeysOf(values)
            THEN UnionAll(Append(values, <<k, v>>), Tail(iter), on_change(st, Insertion(k, v)))
            ELSE IF ValueOf(values, k) # v
            THEN UnionAll([values EXCEPT ![IndexOf(values, k)] = <<k, v>>], Tail(iter),
                          on_change(st, Modification(k, v)))
            ELSE UnionAll(values, Tail(iter), st)

cache_update_union(cache, iter, st) ==
    LET r == CacheReset(cache, st)
        u == UnionAll(r.values, iter, r.st)
    IN [cache |-> [values |-> u.values, reset |-> FALSE], st |-> u.st]

RECURSIVE RemoveAll(_, _, _)
RemoveAll(values, iter, st) ==
    IF iter = <<>> THEN [values |-> values, st |-> st]
    ELSE LET k == Head(iter)[1]
         IN IF k \in KeysOf(values)
            THEN RemoveAll(SelectSeq(values, LAMBDA e : e[1] # k), Tail(iter),
                           on_change(st, Removal(k)))
            ELSE RemoveAll(values, Tail(iter), st)

cache_remove(cache, iter, st) ==
    LET r == CacheReset(cache, st)
        u == RemoveAll(r.values, iter, r.st)
    IN [cache |-> [values |-> u.values, reset |-> FALSE], st |-> u.st]

cache_clear(cache, st) ==
    [cache |-> NewCache, st |-> DrainAll(cache.values, st)]

cache_set_reset_on_next_modification(cache) == [cache EXCEPT !.reset = TRUE]

\* -------------------------------------------------------- DestinationSet
\* the handlers below map [addrs, st] to [addrs, st]
Ds(a, st) == [addrs |-> a, st |-> st]

\* mutant: the name is never known to exist
exists_never(a) == FALSE

exists(a) == a.tag = "Yes"

\* mutant: the cache is not marked for reset
reset_on_next_modification_noop(a) == a

\* mutant: the flag is set whatever addrs is
reset_on_next_modification_any(a) == [a EXCEPT !.reset = TRUE]

reset_on_next_modification(a) ==
    IF a.tag = "Yes" THEN Yes(cache_set_reset_on_next_modification(a)) ELSE a

add(ds, addrs_to_add) ==
    LET cache == IF ds.addrs.tag = "Yes"
                 THEN [values |-> ds.addrs.values, reset |-> ds.addrs.reset]
                 ELSE NewCache
        r == cache_update_union(cache, addrs_to_add, ds.st)
    IN Ds(Yes(r.cache), r.st)

\* mutant: a Remove leaves an addrs that is not Yes as it is
remove_known(ds, addrs_to_remove) ==
    IF ds.addrs.tag = "Yes"
    THEN Ds(Yes(cache_remove([values |-> ds.addrs.values, reset |-> ds.addrs.reset],
                             addrs_to_remove, ds.st).cache),
            cache_remove([values |-> ds.addrs.values, reset |-> ds.addrs.reset],
                         addrs_to_remove, ds.st).st)
    ELSE ds

remove(ds, addrs_to_remove) ==
    IF ds.addrs.tag = "Yes"
    THEN LET r == cache_remove([values |-> ds.addrs.values, reset |-> ds.addrs.reset],
                               addrs_to_remove, ds.st)
         IN Ds(Yes(r.cache), r.st)
    ELSE Ds(Yes(NewCache), ds.st)

\* mutant: a name that does not exist is forgotten rather than marked No
no_endpoints_forget(ds, ex) ==
    Ds(IF ex THEN Yes(NewCache) ELSE Unknown,
       IF ds.addrs.tag = "Yes"
       THEN cache_clear([values |-> ds.addrs.values, reset |-> ds.addrs.reset],
                        retain_send(ds.st, UNoEndpoints)).st
       ELSE retain_send(ds.st, UNoEndpoints))

\* mutant: the cache is cleared before NoEndpoints is sent
no_endpoints_clear_first(ds, ex) ==
    LET st1 == IF ds.addrs.tag = "Yes"
               THEN cache_clear([values |-> ds.addrs.values, reset |-> ds.addrs.reset], ds.st).st
               ELSE ds.st
        st2 == retain_send(st1, UNoEndpoints)
    IN Ds(IF ex THEN Yes(NewCache) ELSE No, st2)

no_endpoints(ds, ex) ==
    LET st1 == retain_send(ds.st, UNoEndpoints)
        st2 == IF ds.addrs.tag = "Yes"
               THEN cache_clear([values |-> ds.addrs.values, reset |-> ds.addrs.reset], st1).st
               ELSE st1
    IN Ds(IF ex THEN Yes(NewCache) ELSE No, st2)

\* one Ready(Some(update)) arm of poll_query
apply_update(ds, u) ==
    CASE u.t = "Add" -> add(ds, u.addrs)
      [] u.t = "Remove" -> remove(ds, u.addrs)
      [] u.t = "NoEndpoints" -> no_endpoints(ds, u.exists)
      [] OTHER -> ds

\* mutant: the ready updates are applied last first
RECURSIVE apply_batch_reversed(_, _)
apply_batch_reversed(ds, batch) ==
    IF batch = <<>> THEN ds
    ELSE apply_update(apply_batch_reversed(ds, Tail(batch)), Head(batch))

RECURSIVE apply_batch(_, _)
apply_batch(ds, batch) ==
    IF batch = <<>> THEN ds ELSE apply_batch(apply_update(ds, Head(batch)), Tail(batch))

\* what rx.poll() yields after the ready updates
Terms == {"NotReady", "End", "InvalidArgument", "Error"}

\* the arm of poll_query that ends the loop, on the set d the ready updates left
poll_end(d, term) ==
    CASE term = "NotReady" -> [ds |-> d, query |-> "Connected"]
      [] term = "InvalidArgument" -> [ds |-> no_endpoints(d, FALSE), query |-> "None"]
      [] OTHER -> [ds |-> d, query |-> "NeedsReconnect"]

\* mutant: every error ends the query as InvalidArgument does
poll_query_strict(ds, batch, term) ==
    CASE term = "NotReady" -> [ds |-> apply_batch(ds, batch), query |-> "Connected"]
      [] term \in {"InvalidArgument", "Error"} ->
           [ds |-> no_endpoints(apply_batch(ds, batch), FALSE), query |-> "None"]
      [] OTHER -> [ds |-> apply_batch(ds, batch), query |-> "NeedsReconnect"]

\* mutant: InvalidArgument asks for a reconnect as any other error does
poll_query_retry(ds, batch, term) ==
    [ds |-> apply_batch(ds, batch),
     query |-> IF term = "NotReady" THEN "Connected" ELSE "NeedsReconnect"]

\* poll_query: [ds, query]
poll_query(ds, batch, term) ==
    poll_end(apply_batch(ds, batch), term)

\* mutant: no catch-up burst
catch_up_none(a) == <<>>

\* the catch-up burst of add_responder
catch_up(a) ==
    IF a.tag = "Yes" THEN [i \in 1..Len(a.values) |-> UAdd(a.values[i][1], a.values[i][2])]
    ELSE <<>>



NoSent == [r \in Resp |-> <<>>]

\* poll_dst after poll_query returned r: a query that needs a reconnect marks
\* the cache for reset
polled(r) ==
    [addrs |-> IF r.query = "NeedsReconnect" THEN reset_on_next_modification(r.ds.addrs)
               ELSE r.ds.addrs,
     query |-> r.query, responders |-> r.ds.st.rs, sent |-> r.ds.st.lg,
     ret |-> r.query = "NeedsReconnect"]

\* poll_dst without a query: NoEndpoints, keeping whether the name exists
unqueried(d) ==
    [addrs |-> d.addrs, query |-> "None", responders |-> d.st.rs,
     sent |-> d.st.lg, ret |-> FALSE]

\* mutant: a query that needs a reconnect is reported by every poll_dst
poll_dst_renotify(a, q, rs, batch, term) ==
    CASE q = "Connected" -> polled(poll_query(Ds(a, St(rs, NoSent)), batch, term))
      [] q = "None" -> unqueried(no_endpoints(Ds(a, St(rs, NoSent)), exists(a)))
      [] OTHER ->
           [addrs |-> a, query |-> q, responders |-> rs, sent |-> NoSent, ret |-> TRUE]

\* mutant: a poll_dst without a query does nothing
poll_dst_idle(a, q, rs, batch, term) ==
    IF q = "Connected"
    THEN polled(poll_query(Ds(a, St(rs, NoSent)), batch, term))
    ELSE [addrs |-> a, query |-> q, responders |-> rs, sent |-> NoSent, ret |-> FALSE]

\* poll_dst on the set (a, q, rs) when the stream has the updates of batch ready
\* and then yields term: [addrs, query, responders, sent, ret]
poll_dst(a, q, rs, batch, term) ==
    CASE q = "Connected" -> polled(poll_query(Ds(a, St(rs, NoSent)), batch, term))
      [] q = "None" -> unqueried(no_endpoints(Ds(a, St(rs, NoSent)), exists(a)))
      [] OTHER ->
           [addrs |-> a, query |-> q, responders |-> rs, sent |-> NoSent, ret |-> FALSE]

\* mutant: the catch-up burst is broadcast to the whole registry
add_responder_bcast(a, rs, r) ==
    [responders |-> Append(rs, r),
     sent |-> [q \in Resp |-> IF q = r \/ InSeq(rs, q) THEN catch_up(a) ELSE <<>>]]

\* add_responder of the responder r: [responders, sent]
add_responder(a, rs, r) ==
    [responders |-> Append(rs, r), sent |-> [NoSent EXCEPT ![r] = catch_up(a)]]

\* mutant: reconnect starts over as new does
reconnect_anew(a, rs, q) == [addrs |-> Unknown, query |-> q, responders |-> rs]

\* reconnect, q being what client.query returns: [addrs, query, responders]
reconnect(a, rs, q) == [addrs |-> a, query |-> q, responders |-> rs]

retain_active(rs) == SelectSeq(rs, LAMBDA r : alive[r])

is_active(rs) == Len(rs) > 0

\* --------------------------------------------------- history bookkeeping
EmptyMap == [k \in Keys |-> 0]
CacheMap(a) == [k \in Keys |-> IF k \in KeysOf(a.values) THEN ValueOf(a.values, k) ELSE 0]

\* the endpoint set a consumer holds after the messages of lg, replayed in order
RECURSIVE Replay(_, _)
Replay(m, lg) ==
    IF lg = <<>> THEN m
    ELSE LET u == Head(lg)
         IN Replay(CASE u[1] = "Add" -> [m EXCEPT ![u[2]] = u[3]]
                     [] u[1] = "Remove" -> [m EXCEPT ![u[2]] = 0]
                     [] OTHER -> EmptyMap,
                   Tail(lg))

Viewed(rs, sent) ==
    [r \in Resp |-> IF InSeq(rs, r) THEN Replay(view[r], sent[r]) ELSE EmptyMap]

\* the endpoint set asserted by the updates of a stream, applied to m
RECURSIVE PutAll(_, _)
PutAll(m, iter) ==
    IF iter = <<>> THEN m ELSE PutAll([m EXCEPT ![Head(iter)[1]] = Head(iter)[2]], Tail(iter))
RECURSIVE DelAll(_, _)
DelAll(m, iter) ==
    IF iter = <<>> THEN m ELSE DelAll([m EXCEPT ![Head(iter)[1]] = 0], Tail(iter))
Asserted(m, u) ==
    CASE u.t = "Add" -> PutAll(m, u.addrs)
      [] u.t = "Remove" -> DelAll(m, u.addrs)
      [] u.t = "NoEndpoints" -> EmptyMap
      [] OTHER -> m
RECURSIVE AssertedAll(_, _)
AssertedAll(m, batch) ==
    IF batch = <<>> THEN m ELSE AssertedAll(Asserted(m, Head(batch)), Tail(batch))

Mutating(u) == u.t \in {"Add", "Remove", "NoEndpoints"}

HasMsg(lg, msg) == \E i \in 1..Len(lg) : lg[i] = msg

\* the messages of lg that precede its first NoEndpoints
RECURSIVE UntilNoEndpoints(_)
UntilNoEndpoints(lg) ==
    IF lg = <<>> \/ Head(lg) = UNoEndpoints THEN <<>>
    ELSE <<Head(lg)>> \o UntilNoEndpoints(Tail(lg))

CountAdd(lg, k) == Cardinality({i \in 1..Len(lg) : lg[i][1] = "Add" /\ lg[i][2] = k})

\* the watched counts
NoCount == [adds |-> 0, ins |-> 0, chg |-> 0, stop |-> FALSE]
Stopped == [adds |-> 0, ins |-> 0, chg |-> 0, stop |-> TRUE]

\* insertions and metadata changes of the key k carried by the entries of one
\* Add, against the held map: <<insertions, changes>>
RECURSIVE Carried(_, _, _)
Carried(held, iter, k) ==
    IF iter = <<>> THEN <<0, 0>>
    ELSE LET e == Head(iter)
             rest == Carried([held EXCEPT ![e[1]] = e[2]], Tail(iter), k)
         IN IF e[1] # k \/ held[k] = e[2] THEN rest
            ELSE IF held[k] = 0 THEN <<rest[1] + 1, rest[2]>>
            ELSE <<rest[1], rest[2] + 1>>

\* the counts after the stream update u is handled in the state ds
Counted(c, ds, u) ==
    IF \/ u.t # "Add"
       \/ c.stop
       \/ ~InSeq(ds.st.rs, watch[1])
       \/ HasMsg(ds.st.lg[watch[1]], UNoEndpoints)
    THEN c
    ELSE LET held == IF ds.addrs.tag = "Yes" /\ ~ds.addrs.reset
                     THEN CacheMap(ds.addrs) ELSE EmptyMap
             n == Carried(held, u.addrs, watch[2])
         IN [c EXCEPT !.ins = @ + n[1], !.chg = @ + n[2]]
RECURSIVE CountedAll(_, _, _)
CountedAll(c, ds, batch) ==
    IF batch = <<>> THEN c
    ELSE CountedAll(Counted(c, ds, Head(batch)), apply_update(ds, Head(batch)), Tail(batch))

\* the counts after an operation that left the registry rs and sent `sent`
Closed(c, rs, sent) ==
    IF watch[1] > made THEN c
    ELSE IF c.stop \/ ~InSeq(rs, watch[1]) THEN Stopped
    ELSE [c EXCEPT !.adds = @ + CountAdd(UntilNoEndpoints(sent[watch[1]]), watch[2]),
                   !.stop = HasMsg(sent[watch[1]], UNoEndpoints)]

\* the record of an operation that turned the registry rs into rs2
Called(op, term, batch, rs, rs2, ret) ==
    [op |-> op, term |-> term, n |-> Len(batch),
     last |-> IF batch = <<>> THEN "-" ELSE batch[Len(batch)].t,
     pruned |-> IF Len(rs2) < Len(rs) THEN Len(rs) - Len(rs2) ELSE 0,
     ret |-> ret]

\* ------------------------------------------------------- pb_to_addr_meta
MaxLabels == 2         \* entries of one label map
LabelKeys == {1, 2, 3}  \* label names, ordered as String::cmp orders them
LabelVals == {1, 2}     \* label values

\* a HashMap<String, String>, as the sequence its iterator yields: the keys
\* are distinct and their order is arbitrary
HashMaps ==
    {m \in SeqsUpTo(LabelKeys \X LabelVals, MaxLabels) :
        \A i, j \in 1..Len(m) : i # j => m[i][1] # m[j][1]}

\* the WeightedAddr handed to pb_to_addr_meta together with the set labels;
\* addr tells whether pb.addr decodes to a socket address
Pbs ==
    [set_labels : HashMaps, metric_labels : HashMaps, addr : BOOLEAN,
     done : {FALSE}, some : {FALSE}, meta : {<<>>}]

NoLabels ==
    [set_labels |-> <<>>, metric_labels |-> <<>>, addr |-> FALSE,
     done |-> TRUE, some |-> FALSE, meta |-> <<>>]

\* one step of the stable sort: e goes behind the entries whose key is not greater
sort_insert(t, e) ==
    LET n == Cardinality({i \in 1..Len(t) : t[i][1] <= e[1]})
    IN SubSeq(t, 1, n) \o <<e>> \o SubSeq(t, n + 1, Len(t))

\* t.sort_by(|(k0, _), (k1, _)| k0.cmp(k1)), a stable sort
RECURSIVE sort_by(_)
sort_by(t) ==
    IF t = <<>> THEN <<>>
    ELSE sort_insert(sort_by(SubSeq(t, 1, Len(t) - 1)), t[Len(t)])

\* IndexMap::insert: a key already present keeps its place and takes the value
index_insert(m, k, v) ==
    IF k \in KeysOf(m) THEN [m EXCEPT ![IndexOf(m, k)] = <<k, v>>]
    ELSE Append(m, <<k, v>>)

RECURSIVE insert_all(_, _)
insert_all(m, t) ==
    IF t = <<>> THEN m
    ELSE insert_all(index_insert(m, Head(t)[1], Head(t)[2]), Tail(t))

\* mutant: the per-endpoint labels are chained before the set labels
pb_to_addr_meta_set_last(pb) ==
    IF ~pb.addr THEN [some |-> FALSE, meta |-> <<>>]
    ELSE [some |-> TRUE,
          meta |-> insert_all(<<>>, sort_by(pb.metric_labels \o pb.set_labels))]

\* pb_to_addr_meta: None, or Some with the labels of the Metadata
pb_to_addr_meta(pb) ==
    IF ~pb.addr THEN [some |-> FALSE, meta |-> <<>>]
    ELSE [some |-> TRUE,
          meta |-> insert_all(<<>>, sort_by(pb.set_labels \o pb.metric_labels))]

\* ------------------------------------------------------------ fmt_labels
\* Option<T>: None is the empty sequence, Some(x) is <<x>>
None == <<>>
Some(x) == <<x>>

\* a label producer: fmt_labels writes text and returns Ok (ok) or Err
Producers == [text : {<<"a">>, <<"b">>}, ok : BOOLEAN]

\* the width and precision of the fmt::Formatter handed to fmt_labels
Widths == {None, Some(3)}
Precisions == {None, Some(0)}

\* the three pair implementations and their fields
Pairs ==
    [kind : {"pair"}, a : {Some(p) : p \in Producers}, b : {Some(p) : p \in Producers}]
    \cup [kind : {"right_opt"}, a : {Some(p) : p \in Producers},
          b : {None} \cup {Some(p) : p \in Producers}]
    \cup [kind : {"left_opt"}, a : {None} \cup {Some(p) : p \in Producers},
          b : {Some(p) : p \in Producers}]

\* a call that has not started: an empty formatter buffer
Calls ==
    {[kind |-> p.kind, a |-> p.a, b |-> p.b, width |-> w, precision |-> n,
      done |-> FALSE, buf |-> <<>>, ok |-> TRUE] :
        p \in Pairs, w \in Widths, n \in Precisions}

NoFmt ==
    [kind |-> "pair", a |-> None, b |-> None, width |-> None, precision |-> None,
     done |-> TRUE, buf |-> <<>>, ok |-> TRUE]

\* Formatter::write_str
write_str(f, s) == [f EXCEPT !.buf = @ \o s]

\* Formatter::pad: s cut to the precision, then filled up to the width
\* (strings are aligned left, the fill is a space)
pad(f, s) ==
    LET cut == IF f.precision # None /\ f.precision[1] < Len(s)
               THEN SubSeq(s, 1, f.precision[1]) ELSE s
        fill == IF f.width # None /\ Len(cut) < f.width[1]
                THEN [i \in 1..(f.width[1] - Len(cut)) |-> " "] ELSE <<>>
    IN write_str(f, cut \o fill)

\* x.fmt_labels(f) of a producer x
produce(f, x) == [write_str(f, x.text) EXCEPT !.ok = x.ok]

\* f.pad(",")?; b.fmt_labels(f)
then_comma(f, b) == IF f.ok THEN produce(pad(f, <<",">>), b) ELSE f

\* mutant: the separator is written behind the second side
fmt_labels_pair_trailing(f, a, b) ==
    IF produce(f, a).ok /\ b.ok THEN pad(produce(produce(f, a), b), <<",">>)
    ELSE then_comma(produce(f, a), b)

\* impl FmtLabels for (A, B)
fmt_labels_pair(f, a, b) == then_comma(produce(f, a), b)

\* impl FmtLabels for (A, Option<B>)
fmt_labels_right_opt(f, a, b) ==
    IF b # None THEN then_comma(produce(f, a), b[1]) ELSE produce(f, a)

\* impl FmtLabels for (Option<A>, B)
fmt_labels_left_opt(f, a, b) ==
    IF a # None THEN then_comma(produce(f, a[1]), b) ELSE produce(f, b)

fmt_labels(f) ==
    CASE f.kind = "pair" -> fmt_labels_pair(f, f.a[1], f.b[1])
      [] f.kind = "right_opt" -> fmt_labels_right_opt(f, f.a[1], f.b)
      [] OTHER -> fmt_labels_left_opt(f, f.a, f.b[1])

\* ------------------------------------------------------------------ Init
\* DestinationSet::new: the query is whatever client.query returned
InitSet ==
    /\ addrs = Unknown
    /\ query \in {"Connected", "None"}
    /\ responders = <<1>>
    /\ alive = [r \in Resp |-> TRUE]
    /\ made = 1
    /\ call = Called("new", "-", <<>>, <<>>, <<>>, FALSE)
    /\ view = [r \in Resp |-> EmptyMap]
    /\ rejected = FALSE
    /\ fresh = EmptyMap
    /\ mutated = FALSE
    /\ opened = "new"
    /\ stale = EmptyMap
    /\ cnt = NoCount

\* no decoding and no formatting call is under way
NoCodec == labels = NoLabels /\ fmt = NoFmt

Init == InitSet /\ track = FALSE /\ watch = <<0, 0>> /\ NoCodec

InitStream == InitSet /\ track = TRUE /\ watch = <<0, 0>> /\ NoCodec

InitCount == InitSet /\ track = FALSE /\ watch \in Resp \X Keys /\ NoCodec

\* --------------------------------------------------------------- actions
\* poll_dst, arm Some(Remote::ConnectedOrConnecting { rx })
PollConnected(batch, term) ==
    /\ query = "Connected"
    /\ \E r \in {poll_dst(addrs, query, responders, batch, term)} :
          /\ addrs' = r.addrs
          /\ query' = r.query
          /\ responders' = r.responders
          /\ view' = Viewed(r.responders, r.sent)
          /\ call' = Called("poll_dst", term, batch, responders, r.responders, r.ret)
          /\ cnt' = Closed(CountedAll(cnt, Ds(addrs, St(responders, NoSent)), batch),
                           r.responders, r.sent)
    /\ cnt'.adds <= MaxCount
    /\ fresh' = IF track THEN AssertedAll(fresh, batch) ELSE fresh
    /\ mutated' = (mutated \/ (track /\ \E i \in 1..Len(batch) : Mutating(batch[i])))
    /\ rejected' = (term = "InvalidArgument")
    /\ UNCHANGED <<alive, made, track, opened, stale, watch>>
    /\ UNCHANGED <<labels, fmt>>

\* poll_dst, arm None
PollNone ==
    /\ query = "None"
    /\ \E r \in {poll_dst(addrs, query, responders, <<>>, "-")} :
          /\ addrs' = r.addrs
          /\ query' = r.query
          /\ responders' = r.responders
          /\ view' = Viewed(r.responders, r.sent)
          /\ call' = Called("poll_dst", "-", <<>>, responders, r.responders, r.ret)
          /\ cnt' = Closed(cnt, r.responders, r.sent)
    /\ UNCHANGED <<alive, made, rejected, track, fresh, mutated, opened, stale, watch>>
    /\ UNCHANGED <<labels, fmt>>

\* poll_dst, arm query => query
PollIdle ==
    /\ query = "NeedsReconnect"
    /\ \E r \in {poll_dst(addrs, query, responders, <<>>, "-")} :
          /\ addrs' = r.addrs
          /\ query' = r.query
          /\ responders' = r.responders
          /\ view' = Viewed(r.responders, r.sent)
          /\ call' = Called("poll_dst", "-", <<>>, responders, r.responders, r.ret)
    /\ UNCHANGED <<alive, made, rejected, track, fresh, mutated, opened, stale, watch, cnt>>
    /\ UNCHANGED <<labels, fmt>>

AddResponder ==
    /\ made < MaxResponders
    /\ \E r \in {add_responder(addrs, responders, made + 1)} :
          /\ responders' = r.responders
          /\ view' = Viewed(r.responders, r.sent)
          /\ cnt' = IF watch[1] = made + 1
                    THEN [NoCount EXCEPT
                            !.adds = CountAdd(r.sent[made + 1], watch[2]),
                            !.ins = IF CacheMap(addrs)[watch[2]] # 0 THEN 1 ELSE 0]
                    ELSE cnt
    /\ made' = made + 1
    /\ call' = Called("add_responder", "-", <<>>, <<>>, <<>>, FALSE)
    /\ UNCHANGED <<addrs, query, alive, rejected, track, fresh, mutated, opened, stale, watch>>
    /\ UNCHANGED <<labels, fmt>>

\* reconnect: the query is whatever client.query returns
Reconnect ==
    /\ \E q \in {"Connected", "None"} :
          \E r \in {reconnect(addrs, responders, q)} :
              /\ addrs' = r.addrs
              /\ query' = r.query
              /\ responders' = r.responders
    /\ call' = Called("reconnect", "-", <<>>, <<>>, <<>>, FALSE)
    /\ fresh' = EmptyMap
    /\ mutated' = FALSE
    /\ opened' = CASE ~track -> opened
                   [] query = "NeedsReconnect" -> "resumed"
                   [] query = "Connected" -> "abandoned"
                   [] rejected -> "reopened"
                   [] OTHER -> opened
    /\ stale' = IF track THEN CacheMap(addrs) ELSE stale
    /\ rejected' = FALSE
    /\ UNCHANGED <<alive, made, view, track, watch, cnt>>
    /\ UNCHANGED <<labels, fmt>>

RetainActive ==
    /\ responders' = retain_active(responders)
    /\ view' = Viewed(responders', NoSent)
    /\ cnt' = Closed(cnt, responders', NoSent)
    /\ call' = Called("retain_active", "-", <<>>, responders, responders', FALSE)
    /\ UNCHANGED <<addrs, query, alive, made, rejected, track, fresh, mutated, opened, stale, watch>>
    /\ UNCHANGED <<labels, fmt>>

\* the consumer of r drops its receiver
ConsumerDrop(r) ==
    /\ InSeq(responders, r)
    /\ alive[r]
    /\ alive' = [alive EXCEPT ![r] = FALSE]
    /\ call' = Called("drop", "-", <<>>, <<>>, <<>>, FALSE)
    /\ UNCHANGED <<addrs, query, responders, made, view, rejected, track, fresh,
                   mutated, opened, stale, watch, cnt>>
    /\ UNCHANGED <<labels, fmt>>

\* the variables of the destination set
dsvars == <<addrs, query, responders, alive, made, call, view, rejected, track,
            fresh, mutated, opened, stale, watch, cnt>>

\* one entry of a stream Add is decoded
PbToAddrMeta ==
    /\ ~labels.done
    /\ \E r \in {pb_to_addr_meta(labels)} :
          labels' = [labels EXCEPT !.done = TRUE, !.some = r.some, !.meta = r.meta]
    /\ UNCHANGED dsvars
    /\ UNCHANGED fmt

\* one pair of label producers is formatted
FmtLabels ==
    /\ ~fmt.done
    /\ fmt' = [fmt_labels(fmt) EXCEPT !.done = TRUE]
    /\ UNCHANGED dsvars
    /\ UNCHANGED labels

Next ==
    \/ \E batch \in Batches, term \in Terms : PollConnected(batch, term)
    \/ PollNone
    \/ PollIdle
    \/ AddResponder
    \/ Reconnect
    \/ RetainActive
    \/ \E r \in Resp : ConsumerDrop(r)

Spec == Init /\ [][Next]_vars

SpecStream == InitStream /\ [][Next]_vars

SpecCount == InitCount /\ [][Next]_vars

\* the formatting of one pair, for every pair and every formatter
InitFmt ==
    InitSet /\ track = FALSE /\ watch = <<0, 0>> /\ labels = NoLabels /\ fmt \in Calls

NextFmt == FmtLabels

SpecFmt == InitFmt /\ [][NextFmt]_vars

\* two updates ready within one poll_dst call
Bursts == {<<u1, u2>> : u1 \in PbUpdate2, u2 \in PbUpdate2}

NextBurst ==
    \/ \E batch \in Bursts, term \in Terms : PollConnected(batch, term)
    \/ Next

SpecBurst == Init /\ [][NextBurst]_vars

\* the decoding of one entry, for every entry and every pair of label maps
InitLabels ==
    InitSet /\ track = FALSE /\ watch = <<0, 0>> /\ fmt = NoFmt /\ labels \in Pbs

NextLabels == PbToAddrMeta

SpecLabels == InitLabels /\ [][NextLabels]_vars


\* ---------------------------------------------------------------- claims
Attached(r) == InSeq(responders, r)
Live(rs) == SelectSeq(rs, LAMBDA r : alive[r])
Removes(values) == [i \in 1..Len(values) |-> URemove(values[i][1])]
NoEndpointsUpdate(e) == [t |-> "NoEndpoints", addrs |-> <<>>, exists |-> e]

\* C1: for every responder in the registry, the endpoint set obtained by
\* replaying the messages it has been sent since it was attached equals the
\* cache contents when addrs = Yes(cache) and is empty when addrs is No or
\* Unknown.
C1_ViewIsCache ==
    \A r \in Resp : Attached(r) => view[r] = CacheMap(addrs)

C1_Witness ==
    /\ responders = <<1, 2>>
    /\ call.op = "poll_dst"
    /\ Len(addrs.values) = 2
    /\ view[2] = CacheMap(addrs)

\* C2: add_responder(r) sends r one Add(k, v) per cache entry, in cache
\* iteration order, when addrs = Yes(cache), and nothing otherwise; it sends
\* nothing to the responders already attached and appends r to the registry;
\* the step leaves addrs and query unchanged.
C2_AddResponder ==
    [][call'.op = "add_responder" =>
        LET r == made'
            sent == add_responder(addrs, responders, r).sent
        IN /\ r = made + 1
           /\ responders' = Append(responders, r)
           /\ addrs' = addrs
           /\ query' = query
           /\ \A q \in Resp \ {r} : sent[q] = <<>>
           /\ Len(sent[r]) = Len(addrs.values)
           /\ \A i \in 1..Len(sent[r]) :
                sent[r][i] = UAdd(addrs.values[i][1], addrs.values[i][2])
           /\ view'[r] = CacheMap(addrs)]_vars

C2_Witness ==
    /\ call.op = "add_responder"
    /\ responders = <<1, 2>>
    /\ Len(addrs.values) = 2
    /\ view[2] = CacheMap(addrs)

\* C3: after a disconnect and a reconnect, once the new stream has delivered
\* an Add, Remove or NoEndpoints, the cache and the endpoint set of every
\* responder of the registry equal the updates of the new stream applied to
\* an empty set.
C3_ReconnectFidelity ==
    (opened = "resumed" /\ mutated /\ query \in {"Connected", "NeedsReconnect"}) =>
        /\ CacheMap(addrs) = fresh
        /\ \A r \in Resp : Attached(r) => view[r] = fresh

C3_Witness ==
    /\ opened = "resumed"
    /\ mutated
    /\ query = "Connected"
    /\ \E k \in Keys : stale[k] # 0 /\ fresh[k] = 0 /\ CacheMap(addrs)[k] = 0
    /\ \E k \in Keys : fresh[k] # 0
    /\ \E r \in Resp : Attached(r) /\ alive[r] /\ view[r] = fresh

\* C4 as stated: between the attachment of a responder and the first
\* NoEndpoints it is sent, the number of Add(k, _) it is sent is 1 plus the
\* number of metadata changes for k observed on the stream.
C4_Original ==
    Attached(watch[1]) => cnt.adds = 1 + cnt.chg

\* C4 as amended: in that interval the number of Add(k, _) sent to the
\* responder is the number of times k entered the cache (a k cached at the
\* attachment counting once) plus the number of metadata changes for k
\* observed on the stream.
C4_Amended ==
    Attached(watch[1]) => cnt.adds = cnt.ins + cnt.chg

C4_Witness ==
    /\ watch[1] = 2
    /\ Attached(2)
    /\ alive[2]
    /\ cnt.ins = 1
    /\ cnt.chg = 1
    /\ cnt.adds = 2

\* C5: a poll_dst on a connected stream that ends with end-of-stream or an
\* error other than InvalidArgument returns true and leaves query =
\* NeedsReconnect; the ending itself sets the reset flag of a Yes cache and
\* nothing else: cache contents, registry and the messages sent are those of
\* the updates that were ready before it.
C5_Transient ==
    query = "Connected" =>
        \A batch \in Batches, term \in {"End", "Error"} :
            LET mid == poll_dst(addrs, query, responders, batch, "NotReady")
                r == poll_dst(addrs, query, responders, batch, term)
            IN /\ r.ret
               /\ r.query = "NeedsReconnect"
               /\ r.addrs.tag = mid.addrs.tag
               /\ r.addrs.values = mid.addrs.values
               /\ r.addrs.reset = (mid.addrs.tag = "Yes")
               /\ r.sent = mid.sent
               /\ r.responders = mid.responders
               /\ (batch = <<>> =>
                     /\ r.addrs.values = addrs.values
                     /\ r.sent = NoSent
                     /\ r.responders = responders)

C5_Witness ==
    /\ call.op = "poll_dst"
    /\ call.term \in {"End", "Error"}
    /\ call.n = 0
    /\ call.ret
    /\ query = "NeedsReconnect"
    /\ addrs.tag = "Yes"
    /\ addrs.reset
    /\ addrs.values # <<>>

\* C6: when the stream errors with InvalidArgument, every responder whose
\* channel is open is sent NoEndpoints and then a Remove for each cached key
\* (the others are pruned), addrs becomes No, query becomes None and poll_dst
\* returns false; from then on, until reconnect is called, query stays None
\* and no poll_dst returns true.
C6_Rejected ==
    /\ query = "Connected" =>
         \A batch \in Batches :
             LET mid == poll_dst(addrs, query, responders, batch, "NotReady")
                 r == poll_dst(addrs, query, responders, batch, "InvalidArgument")
             IN /\ r.addrs = No
                /\ r.query = "None"
                /\ ~r.ret
                /\ r.responders = Live(mid.responders)
                /\ \A q \in Resp :
                     r.sent[q] = IF InSeq(r.responders, q)
                                 THEN mid.sent[q] \o <<UNoEndpoints>>
                                      \o Removes(mid.addrs.values)
                                 ELSE mid.sent[q]
    /\ rejected =>
         /\ query = "None"
         /\ addrs = No
         /\ ~call.ret
         /\ LET r == poll_dst(addrs, query, responders, <<>>, "-")
            IN r.query = "None" /\ ~r.ret

C6_Witness ==
    /\ rejected
    /\ call.op = "poll_dst"
    /\ call.term = "InvalidArgument"
    /\ call.n = 1
    /\ call.last = "Add"
    /\ call.pruned = 1
    /\ addrs = No
    /\ \E r \in Resp : Attached(r) /\ alive[r] /\ view[r] = EmptyMap

\* C7 as stated: after the stream has errored with InvalidArgument, a
\* poll_dst call sends no message, leaves addrs, query and the registry
\* unchanged and returns false.
C7_Original ==
    rejected =>
        LET r == poll_dst(addrs, query, responders, <<>>, "-")
        IN /\ r.sent = NoSent
           /\ r.addrs = addrs
           /\ r.query = query
           /\ r.responders = responders
           /\ ~r.ret

\* C7 as amended: after the stream has errored with InvalidArgument, a
\* poll_dst call sends one NoEndpoints to every responder whose channel is
\* open and nothing else, prunes the responders whose send fails, leaves
\* addrs = No and query = None and returns false.
C7_Amended ==
    rejected =>
        LET r == poll_dst(addrs, query, responders, <<>>, "-")
        IN /\ \A q \in Resp :
                r.sent[q] = IF Attached(q) /\ alive[q] THEN <<UNoEndpoints>> ELSE <<>>
           /\ r.responders = Live(responders)
           /\ addrs = No
           /\ r.addrs = No
           /\ query = "None"
           /\ r.query = "None"
           /\ ~r.ret

C7_Witness ==
    /\ rejected
    /\ call.op = "poll_dst"
    /\ call.term = "-"
    /\ call.pruned = 1
    /\ \E r \in Resp : Attached(r) /\ alive[r]

\* C8: handling a stream NoEndpoints{exists} sends NoEndpoints to every
\* responder (pruning those whose send fails), then, if addrs was Yes(cache),
\* a Remove(k) for every key of the cache, after the NoEndpoints in every
\* channel; addrs ends as Yes(empty cache, reset flag clear) if exists and as
\* No otherwise.
C8_NoEndpoints ==
    query = "Connected" =>
        \A e \in BOOLEAN :
            LET r == poll_dst(addrs, query, responders, <<NoEndpointsUpdate(e)>>, "NotReady")
            IN /\ r.responders = Live(responders)
               /\ \A q \in Resp :
                    r.sent[q] = IF Attached(q) /\ alive[q]
                                THEN <<UNoEndpoints>> \o Removes(addrs.values)
                                ELSE <<>>
               /\ r.addrs = IF e THEN [tag |-> "Yes", values |-> <<>>, reset |-> FALSE]
                            ELSE No
               /\ r.query = "Connected"
               /\ ~r.ret

C8_Witness ==
    /\ call.op = "poll_dst"
    /\ call.n = 1
    /\ call.last = "NoEndpoints"
    /\ call.term = "NotReady"
    /\ call.pruned = 1
    /\ addrs = No
    /\ \E r \in Resp : Attached(r) /\ alive[r]

\* C9: every operation extends the channels of any two responders that stay
\* in the registry by the same messages in the same order; the catch-up burst
\* of add_responder goes to the new responder alone.
C9_SameOrder ==
    /\ \A batch \in Batches, term \in Terms :
         LET r == poll_dst(addrs, query, responders, batch, term)
         IN \A p, q \in Resp :
              (InSeq(r.responders, p) /\ InSeq(r.responders, q)) => r.sent[p] = r.sent[q]
    /\ made < MaxResponders =>
         LET r == add_responder(addrs, responders, made + 1)
         IN \A q \in Resp : Attached(q) => r.sent[q] = <<>>
    /\ \A p, q \in Resp : (Attached(p) /\ Attached(q)) => view[p] = view[q]

C9_Witness ==
    /\ responders = <<1, 2>>
    /\ alive[1]
    /\ alive[2]
    /\ call.op = "poll_dst"
    /\ call.last = "Add"
    /\ view[1] # EmptyMap
    /\ view[1] = view[2]

C11_IsActive ==
    is_active(responders) <=> \E r \in Resp : Attached(r) /\ alive[r]

\* is_active after retain_active: the registry holds only live responders
C11_AfterRetain ==
    is_active(retain_active(responders)) <=> \E r \in Resp : Attached(r) /\ alive[r]

C11_Stale ==
    /\ call.op = "drop"
    /\ is_active(responders)
    /\ ~\E r \in Resp : Attached(r) /\ alive[r]

LabelOf(m, k) == IF k \in KeysOf(m) THEN ValueOf(m, k) ELSE 0

\* C12: the label sequence of a decoded entry has exactly the keys of the
\* union of the set labels and the entry's labels, each key once, in
\* ascending key order, and a key of both maps carries the entry's value.
C12_LabelMerge ==
    (labels.done /\ labels.some) =>
        LET m == labels.meta
        IN /\ KeysOf(m) = KeysOf(labels.set_labels) \cup KeysOf(labels.metric_labels)
           /\ \A i, j \in 1..Len(m) : i < j => m[i][1] < m[j][1]
           /\ \A i \in 1..Len(m) :
                m[i][2] = IF m[i][1] \in KeysOf(labels.metric_labels)
                          THEN LabelOf(labels.metric_labels, m[i][1])
                          ELSE LabelOf(labels.set_labels, m[i][1])

C12_Witness ==
    /\ labels.done
    /\ labels.some
    /\ labels.set_labels = <<<<3, 1>>, <<1, 1>>>>
    /\ labels.metric_labels = <<<<3, 2>>, <<2, 2>>>>
    /\ labels.meta = <<<<1, 1>>, <<2, 2>>, <<3, 2>>>>

\* C13: one poll_dst call on a connected stream applies all the updates that
\* are ready in stream order: the set it leaves and the messages each
\* responder is sent are those of handling the first update and then the
\* second, the messages of the first before those of the second; the signal
\* after them ends the call, and on not-ready the query stays
\* ConnectedOrConnecting and the call returns false.
C13_StreamOrder ==
    query = "Connected" =>
        \A batch \in Bursts, term \in Terms :
            LET r == poll_dst(addrs, query, responders, batch, term)
                one == poll_dst(addrs, query, responders, <<batch[1]>>, "NotReady")
                two == poll_dst(one.addrs, one.query, one.responders, <<batch[2]>>, term)
            IN /\ one.query = "Connected"
               /\ ~one.ret
               /\ r.addrs = two.addrs
               /\ r.query = two.query
               /\ r.ret = two.ret
               /\ r.responders = two.responders
               /\ \A q \in Resp : r.sent[q] = one.sent[q] \o two.sent[q]
               /\ (term = "NotReady" => r.query = "Connected" /\ ~r.ret)

C13_Witness ==
    /\ call.op = "poll_dst"
    /\ call.n = 2
    /\ call.term = "NotReady"
    /\ query = "Connected"
    /\ ~call.ret
    /\ responders = <<1, 2>>
    /\ alive[1]
    /\ alive[2]
    /\ Len(addrs.values) = 2
    /\ view[1] = CacheMap(addrs)
    /\ view[2] = CacheMap(addrs)

\* what the claim has a pair write: a, then ",", then b; a side that is
\* absent is left out together with the comma; a failure of the first side
\* ends the call
Joined(a, b) ==
    CASE a = None -> [buf |-> b[1].text, ok |-> b[1].ok]
      [] b = None -> [buf |-> a[1].text, ok |-> a[1].ok]
      [] ~a[1].ok -> [buf |-> a[1].text, ok |-> FALSE]
      [] OTHER -> [buf |-> a[1].text \o <<",">> \o b[1].text, ok |-> b[1].ok]

\* C14: (a, b) writes a, then ",", then b; (a, Some(b)) and (Some(a), b) write
\* the same as (a, b); (a, None) writes exactly a and (None, b) exactly b; if
\* the first side fails the error is returned and nothing further is written.
C14_PairFormat ==
    fmt.done => (fmt.buf = Joined(fmt.a, fmt.b).buf /\ fmt.ok = Joined(fmt.a, fmt.b).ok)

\* the same on a formatter that has neither a width nor a precision
C14_PlainFormatter ==
    (fmt.done /\ fmt.width = None /\ fmt.precision = None) =>
        (fmt.buf = Joined(fmt.a, fmt.b).buf /\ fmt.ok = Joined(fmt.a, fmt.b).ok)

\* a formatter with a width: the comma is filled up to it
C14_Padded ==
    /\ fmt.done
    /\ fmt.kind = "pair"
    /\ fmt.width = Some(3)
    /\ fmt.precision = None
    /\ fmt.ok
    /\ fmt.buf = <<"a", ",", " ", " ", "b">>

\* C15: the reset flag is set only while addrs = Yes(_); a stream Add, Remove
\* or NoEndpoints, and a poll_dst without a query, leave it clear; it is not
\* set while the query is ConnectedOrConnecting and the stream has delivered
\* an Add, Remove or NoEndpoints.
C15_ResetFlag ==
    /\ addrs.reset => addrs.tag = "Yes"
    /\ (query = "Connected" /\ mutated) => ~addrs.reset
    /\ query = "Connected" =>
         \A u \in PbUpdate2 :
             Mutating(u) =>
                 ~poll_dst(addrs, query, responders, <<u>>, "NotReady").addrs.reset
    /\ query = "None" => ~poll_dst(addrs, query, responders, <<>>, "-").addrs.reset

C15_Witness ==
    /\ opened = "resumed"
    /\ stale # EmptyMap
    /\ mutated
    /\ call.op = "poll_dst"
    /\ call.last = "Remove"
    /\ query = "Connected"
    /\ addrs.tag = "Yes"
    /\ ~addrs.reset

\* C16: a poll_dst while query = NeedsReconnect leaves query, addrs, the reset
\* flag and the registry unchanged, sends nothing and returns false; poll_dst
\* returns true only on the call that observes the end of the stream or a
\* transient error, and a query that needs a reconnect is replaced by
\* reconnect alone.
C16_Idle ==
    [][/\ (call'.op = "poll_dst" /\ query = "NeedsReconnect") =>
            /\ addrs' = addrs
            /\ query' = query
            /\ responders' = responders
            /\ view' = view
            /\ poll_dst(addrs, query, responders, <<>>, "-").sent = NoSent
            /\ ~call'.ret
       /\ (call'.op = "poll_dst" /\ call'.ret) =>
            /\ query = "Connected"
            /\ call'.term \in {"End", "Error"}
            /\ query' = "NeedsReconnect"
       /\ (call'.op = "poll_dst" /\ query = "Connected"
             /\ call'.term \in {"End", "Error"}) => call'.ret
       /\ (query = "NeedsReconnect" /\ query' # query) => call'.op = "reconnect"]_vars

C16_Witness ==
    /\ call.op = "poll_dst"
    /\ call.term = "-"
    /\ ~call.ret
    /\ query = "NeedsReconnect"
    /\ addrs.reset
    /\ addrs.values # <<>>
    /\ \E r \in Resp : Attached(r) /\ ~alive[r]

\* C17: reconnect replaces the query by what the client returns and nothing
\* else: addrs with its cache contents and reset flag and the registry are
\* unchanged, and no responder is sent a message.
C17_Reconnect ==
    [][call'.op = "reconnect" =>
        /\ addrs' = addrs
        /\ responders' = responders
        /\ view' = view
        /\ alive' = alive
        /\ query' \in {"Connected", "None"}]_vars

C17_Witness ==
    /\ call.op = "reconnect"
    /\ query = "Connected"
    /\ addrs.tag = "Yes"
    /\ addrs.reset
    /\ Len(addrs.values) = 2
    /\ responders = <<1, 2>>
    /\ view[1] = CacheMap(addrs)

\* C18: a stream Remove handled while addrs is Unknown or No leaves addrs =
\* Yes(empty cache), sends nothing and keeps the registry; handled while
\* addrs = Yes(cache) it broadcasts Remove(k) only for keys k of the cache
\* (without the reset flag: only for the keys it names), and the same Remove
\* handled again broadcasts nothing.
C18_Remove ==
    query = "Connected" =>
        \A u \in PbRemove :
            LET r == poll_dst(addrs, query, responders, <<u>>, "NotReady")
                again == poll_dst(r.addrs, r.query, r.responders, <<u>>, "NotReady")
            IN /\ r.addrs.tag = "Yes"
               /\ ~r.addrs.reset
               /\ addrs.tag # "Yes" =>
                    /\ r.addrs.values = <<>>
                    /\ r.sent = NoSent
                    /\ r.responders = responders
               /\ addrs.tag = "Yes" =>
                    \A q \in Resp : \A i \in 1..Len(r.sent[q]) :
                        /\ r.sent[q][i][1] = "Remove"
                        /\ r.sent[q][i][2] \in KeysOf(addrs.values)
                        /\ ~addrs.reset => r.sent[q][i][2] \in KeysOf(u.addrs)
                        /\ \A j \in 1..Len(r.sent[q]) :
                             i # j => r.sent[q][i] # r.sent[q][j]
               /\ \A k \in KeysOf(u.addrs) : k \notin KeysOf(r.addrs.values)
               /\ again.sent = NoSent
               /\ again.addrs = r.addrs
               /\ again.responders = r.responders

C18_Witness ==
    /\ call.op = "poll_dst"
    /\ call.n = 1
    /\ call.last = "Remove"
    /\ call.pruned = 1
    /\ addrs.tag = "Yes"
    /\ Len(addrs.values) = 1
    /\ \E r \in Resp : Attached(r) /\ alive[r] /\ view[r] = CacheMap(addrs)

\* C19: a poll_dst while query = None keeps what is known of the name's
\* existence: addrs ends as Yes(empty cache) if it was Yes(_) and as No
\* otherwise; every responder whose channel is open is sent NoEndpoints and
\* then a Remove for each cached key, the others are pruned; the query stays
\* None and the call returns false.
C19_Unqueried ==
    query = "None" =>
        LET r == poll_dst(addrs, query, responders, <<>>, "-")
        IN /\ r.addrs = IF addrs.tag = "Yes"
                        THEN [tag |-> "Yes", values |-> <<>>, reset |-> FALSE]
                        ELSE No
           /\ r.query = "None"
           /\ ~r.ret
           /\ r.responders = Live(responders)
           /\ \A q \in Resp :
                r.sent[q] = IF Attached(q) /\ alive[q]
                            THEN <<UNoEndpoints>> \o Removes(addrs.values)
                            ELSE <<>>

C19_Witness ==
    /\ call.op = "poll_dst"
    /\ call.term = "-"
    /\ call.pruned = 1
    /\ ~call.ret
    /\ query = "None"
    /\ ~rejected
    /\ addrs = [tag |-> "Yes", values |-> <<>>, reset |-> FALSE]
    /\ \E r \in Resp : Attached(r) /\ alive[r] /\ view[r] = EmptyMap

\* the Add, Remove and NoEndpoints updates of a batch, in order
Mutations(batch) == SelectSeq(batch, Mutating)

\* C20: once addrs is Yes(_) or No it is never Unknown again; a poll_dst that
\* handles a stream Add, Remove or NoEndpoints, or that finds query = None,
\* leaves addrs Yes(_) or No; addrs becomes No only by a stream
\* NoEndpoints{exists = false}, by InvalidArgument, or by a poll_dst with
\* query = None while addrs is not Yes(_); no other operation changes addrs.
C20_Monotone ==
    [][/\ addrs.tag # "Unknown" => addrs'.tag # "Unknown"
       /\ call'.op # "poll_dst" => addrs' = addrs
       /\ \A batch \in Batches, term \in Terms :
            LET r == poll_dst(addrs, query, responders, batch, term)
                m == Mutations(batch)
            IN /\ r.addrs.tag = "Unknown" =>
                    /\ addrs.tag = "Unknown"
                    /\ query # "None"
                    /\ (query = "Connected" => m = <<>> /\ term # "InvalidArgument")
               /\ (addrs.tag # "No" /\ r.addrs.tag = "No") =>
                    \/ query = "None" /\ addrs.tag = "Unknown"
                    \/ query = "Connected" /\ term = "InvalidArgument"
                    \/ /\ query = "Connected"
                       /\ m # <<>>
                       /\ m[Len(m)] = NoEndpointsUpdate(FALSE)]_vars

C20_Witness ==
    /\ call.op = "poll_dst"
    /\ call.n = 1
    /\ call.last = "NoEndpoints"
    /\ call.term = "End"
    /\ call.pruned = 0
    /\ addrs = No
    /\ query = "NeedsReconnect"
    /\ responders = <<1, 2>>

====
